---- MODULE Spec2Model ----
(***************************************************************************)
(* ChunkIdEncoder (hub/core/meta/encode/chunk_id.py): a run-length table   *)
(* of rows [chunk_id, last_index] kept in an unsigned fixed-width array,   *)
(* with chunk-id generation, sample registration, lookup, local-index      *)
(* translation and serialization.                                          *)
(*                                                                         *)
(* The base class Encoder (hub/core/meta/encode/base_encoder.py), the      *)
(* constants (hub/constants.py) and the codec (hub/core/serialize.py) are  *)
(* not part of the sources at hand; they are modelled from the written     *)
(* specification and from what chunk_id.py shows of them (the docstring    *)
(* example, the dtype of the array, the overflow comment).                 *)
(*                                                                         *)
(* The fixed width is scaled down: an encoded integer has BytesPerInt      *)
(* bytes of ByteBase values each, so that the wrap-around of the unsigned  *)
(* type is within reach of the model checker.                              *)
(***************************************************************************)
EXTENDS Integers, Sequences, FiniteSets, TLC

\* ---------------------------------------------------------------- bounds
MaxChunks == 3       \* generate_chunk_id calls per behaviour
MaxCount == 2        \* largest count passed to register_samples
MaxRegistered == 5  \* cap on the sum of the registered counts
MaxNameId == 300    \* largest id given to name_from_id
MaxNameLen == 2     \* longest name given to id_from_name

\* ------------------------------------------------------- fixed-width type
ByteBase == 2        \* number of values of one byte (scaled down from 256)
BytesPerInt == 2     \* bytes of one ENCODING_DTYPE integer (scaled down)

RECURSIVE Pow(_, _)
Pow(b, e) == IF e = 0 THEN 1 ELSE b * Pow(b, e - 1)

\* number of values of ENCODING_DTYPE
Modulus == Pow(ByteBase, BytesPerInt)

\* largest value of ENCODING_DTYPE
MaxValue == Modulus - 1

\* ENCODING_DTYPE(x): conversion of a python int to the unsigned type
ENCODING_DTYPE(x) == x % Modulus

\* column positions of a row (0-based, as in the source)
CHUNK_ID_INDEX == 0
last_index_index == 1

\* ids uuid4().int >> UUID_SHIFT_AMOUNT may produce (a sample of the range)
ChunkIds == {1, 2}

\* hub.__version__ as bytes
Version == <<1>>

Counts == -1 .. MaxCount
Indices == -1 .. Modulus

VARIABLES
    encoded,   \* self._encoded: sequence of rows <<chunk_id, last_index>>
    hist,      \* history: per generate_chunk_id call, its id and what was registered after it
    res        \* the last call: operation, argument and outcome

vars == <<encoded, hist, res>>

\* ------------------------------------------------------------- rows
Col(row, c) == row[c + 1]
LastRow(enc) == enc[Len(enc)]

\* Encoder.num_samples
num_samples(enc) ==
    IF Len(enc) = 0 THEN 0
    ELSE Col(LastRow(enc), last_index_index) + 1

num_chunks_wrapped(enc) ==
    IF ENCODING_DTYPE(num_samples(enc)) = 0 THEN 0
    ELSE Len(enc)
\* ChunkIdEncoder.num_chunks
num_chunks(enc) ==
    IF num_samples(enc) = 0 THEN 0
    ELSE Len(enc)

generate_chunk_id_zero(enc, id) ==
    IF num_samples(enc) = 0
    THEN << <<ENCODING_DTYPE(id), ENCODING_DTYPE(0)>> >>
    ELSE Append(enc, <<ENCODING_DTYPE(id), ENCODING_DTYPE(num_samples(enc) - 1)>>)
generate_chunk_id_wrapped(enc, id) ==
    IF ENCODING_DTYPE(num_samples(enc)) = 0
    THEN << <<ENCODING_DTYPE(id), ENCODING_DTYPE(-1)>> >>
    ELSE Append(enc, <<ENCODING_DTYPE(id), ENCODING_DTYPE(num_samples(enc) - 1)>>)
generate_chunk_id_sentinel(enc, id) ==
    IF num_samples(enc) = 0
    THEN << <<ENCODING_DTYPE(id), ENCODING_DTYPE(-1)>> >>
    ELSE Append(enc, <<ENCODING_DTYPE(id), ENCODING_DTYPE(-1)>>)
\* ChunkIdEncoder.generate_chunk_id: the table after the call
generate_chunk_id(enc, id) ==
    IF num_samples(enc) = 0
    THEN << <<ENCODING_DTYPE(id), ENCODING_DTYPE(-1)>> >>
    ELSE Append(enc, <<ENCODING_DTYPE(id), ENCODING_DTYPE(num_samples(enc) - 1)>>)

validate_no_negative_check(enc, n) ==
    IF num_samples(enc) = 0 THEN "ChunkIdEncoderError_no_chunk_ids"
    ELSE IF n = 0 /\ num_chunks(enc) < 2 THEN "ChunkIdEncoderError_zero_count"
    ELSE "ok"
validate_zero_needs_one(enc, n) ==
    IF n < 0 THEN "ValueError"
    ELSE IF num_samples(enc) = 0 THEN "ChunkIdEncoderError_no_chunk_ids"
    ELSE IF n = 0 /\ num_chunks(enc) < 1 THEN "ChunkIdEncoderError_zero_count"
    ELSE "ok"
\* ChunkIdEncoder._validate_incoming_item: "ok" or the error raised
validate_incoming_item(enc, n) ==
    IF n < 0 THEN "ValueError"
    ELSE IF num_samples(enc) = 0 THEN "ChunkIdEncoderError_no_chunk_ids"
    ELSE IF n = 0 /\ num_chunks(enc) < 2 THEN "ChunkIdEncoderError_zero_count"
    ELSE "ok"

combine_condition_never(item) == FALSE
\* ChunkIdEncoder._combine_condition
combine_condition(item) == TRUE

\* ChunkIdEncoder._derive_next_last_index: unsigned addition, overflow ignored
derive_next_last_index(last_index, n) ==
    (last_index + ENCODING_DTYPE(n)) % Modulus

\* ChunkIdEncoder._derive_value
derive_value(row) == Col(row, CHUNK_ID_INDEX)

\* Encoder.register_samples: validation first, then the last row is extended
Encoder_register_samples(enc, item, n) ==
    LET status == validate_incoming_item(enc, n) IN
    IF status # "ok" THEN [status |-> status, enc |-> enc]
    ELSE IF combine_condition(item)
    THEN [status |-> "ok",
          enc |-> [enc EXCEPT ![Len(enc)][last_index_index + 1] =
                       derive_next_last_index(@, n)]]
    ELSE [status |-> "ok",
          enc |-> Append(enc, <<item, derive_next_last_index(
                                          Col(LastRow(enc), last_index_index), n)>>)]

\* ChunkIdEncoder.register_samples
register_samples(enc, n) == Encoder_register_samples(enc, "None", n)

RECURSIVE searchsorted(_, _, _, _)
\* np.searchsorted(column, v), side "left": binary search over rows lo..hi-1 (0-based)
searchsorted(enc, v, lo, hi) ==
    IF lo >= hi THEN lo
    ELSE LET mid == (lo + hi) \div 2 IN
         IF Col(enc[mid + 1], last_index_index) < v
         THEN searchsorted(enc, v, mid + 1, hi)
         ELSE searchsorted(enc, v, lo, mid)

\* Encoder.__getitem__(i, return_row_index=True): the value and the 0-based row
getitem(enc, i) ==
    IF i < 0 \/ i >= num_samples(enc)
    THEN [status |-> "IndexError", value |-> 0, row |-> 0]
    ELSE LET r == searchsorted(enc, i, 0, Len(enc)) IN
         IF r >= Len(enc)
         THEN [status |-> "IndexError", value |-> 0, row |-> 0]
         ELSE [status |-> "ok", value |-> derive_value(enc[r + 1]), row |-> r]

\* get_chunk_id(i): the lookup, returning only the value
get_chunk_id(enc, i) ==
    LET g == getitem(enc, i) IN [status |-> g.status, value |-> g.value]

\* ChunkIdEncoder.get_local_sample_index
get_local_sample_index(enc, i) ==
    LET g == getitem(enc, i) IN
    IF g.status # "ok" THEN [status |-> g.status, value |-> 0]
    ELSE IF g.row = 0 THEN [status |-> "ok", value |-> i]
    ELSE LET current_entry == enc[g.row]
             last_num_samples == Col(current_entry, last_index_index) + 1
         IN [status |-> "ok", value |-> i - last_num_samples]

\* ------------------------------------------------------- serialization
RECURSIVE int_to_bytes(_, _)
\* the k little-endian bytes of x
int_to_bytes(x, k) ==
    IF k = 0 THEN <<>>
    ELSE <<x % ByteBase>> \o int_to_bytes(x \div ByteBase, k - 1)

RECURSIVE int_from_bytes(_)
int_from_bytes(bs) ==
    IF bs = <<>> THEN 0
    ELSE Head(bs) + ByteBase * int_from_bytes(Tail(bs))

RECURSIVE flatten(_)
\* arr.view(np.byte).reshape(-1): the rows in row-major order, as bytes
flatten(enc) ==
    IF enc = <<>> THEN <<>>
    ELSE int_to_bytes(Head(enc)[1], BytesPerInt)
         \o int_to_bytes(Head(enc)[2], BytesPerInt)
         \o flatten(Tail(enc))

RECURSIVE unflatten(_)
\* np.frombuffer(bytes, dtype=ENCODING_DTYPE).reshape(-1, 2)
unflatten(bs) ==
    IF Len(bs) < 2 * BytesPerInt THEN <<>>
    ELSE << <<int_from_bytes(SubSeq(bs, 1, BytesPerInt)),
              int_from_bytes(SubSeq(bs, BytesPerInt + 1, 2 * BytesPerInt))>> >>
         \o unflatten(SubSeq(bs, 2 * BytesPerInt + 1, Len(bs)))

\* serialize_chunkids(version, [ids]): length of the version, the version, the rows
serialize_chunkids(version, enc) ==
    <<Len(version)>> \o version \o flatten(enc)

\* deserialize_chunkids(buffer)
deserialize_chunkids(buf) ==
    LET len_version == buf[1] IN
    [version |-> SubSeq(buf, 2, 1 + len_version),
     ids |-> unflatten(SubSeq(buf, 2 + len_version, Len(buf)))]

tobytes_without_version(enc) == flatten(enc)
\* ChunkIdEncoder.tobytes
tobytes(enc) == serialize_chunkids(Version, enc)

frombuffer_swapped(buf) ==
    IF buf = <<>> THEN <<>>
    ELSE LET ids == deserialize_chunkids(buf).ids IN
         [k \in 1 .. Len(ids) |-> <<ids[k][2], ids[k][1]>>]
\* ChunkIdEncoder.frombuffer: the rows of the instance built
frombuffer(buf) ==
    IF buf = <<>> THEN <<>>
    ELSE LET ids == deserialize_chunkids(buf).ids IN
         IF Len(ids) # 0 THEN ids ELSE <<>>

\* ------------------------------------------------------------- names
\* the base of hex() and of int(name, 16)
HexBase == 16

\* the characters hex() writes, by digit value
HexDigits == <<"0", "1", "2", "3", "4", "5", "6", "7",
               "8", "9", "a", "b", "c", "d", "e", "f">>

RECURSIVE hex_digits(_)
\* the digits of n >= 0 in base 16, most significant first, no leading zero
hex_digits(n) ==
    IF n < HexBase THEN <<HexDigits[n + 1]>>
    ELSE hex_digits(n \div HexBase) \o <<HexDigits[(n % HexBase) + 1]>>

\* python hex(n), n >= 0
hex(n) == <<"0", "x">> \o hex_digits(n)

\* whether c is a character int(_, 16) reads as a digit
IsHexDigit(c) == \E d \in 1 .. HexBase : HexDigits[d] = c
HexValue(c) == (CHOOSE d \in 1 .. HexBase : HexDigits[d] = c) - 1

RECURSIVE hex_value(_, _)
\* the value of the digits ds read after the value acc
hex_value(ds, acc) ==
    IF ds = <<>> THEN acc
    ELSE hex_value(Tail(ds), acc * HexBase + HexValue(Head(ds)))

\* python int(s, 16): an optional "0x", then at least one digit
int16(s) ==
    LET body == IF Len(s) >= 2 /\ s[1] = "0" /\ s[2] = "x"
                THEN SubSeq(s, 3, Len(s)) ELSE s
    IN IF body = <<>> \/ \E k \in 1 .. Len(body) : ~IsHexDigit(body[k])
       THEN [status |-> "ValueError", value |-> 0]
       ELSE [status |-> "ok", value |-> hex_value(body, 0)]

name_from_id_keeps_prefix(id) == hex(id)
\* ChunkIdEncoder.name_from_id
name_from_id(id) == SubSeq(hex(id), 3, Len(hex(id)))

\* ChunkIdEncoder.id_from_name
id_from_name(name) == int16(<<"0", "x">> \o name)

\* the ids and the names the conversions are applied to
NameIds == 0 .. MaxNameId
NameChars == {"0", "1", "a", "f", "x"}
Names == UNION {[1 .. l -> NameChars] : l \in 0 .. MaxNameLen}

\* ------------------------------------------------------------ history
RECURSIVE SumCounts(_)
\* the sum of the counts of the successful register_samples calls
SumCounts(h) == IF h = <<>> THEN 0 ELSE Head(h).n + SumCounts(Tail(h))

Result(op, arg, status, val, rows, buf) ==
    [op |-> op, arg |-> arg, status |-> status, val |-> val, rows |-> rows, buf |-> buf]

\* ------------------------------------------------------------- actions
Init ==
    /\ encoded = <<>>
    /\ hist = <<>>
    /\ res = Result("init", 0, "ok", 0, <<>>, <<>>)

\* enc.generate_chunk_id()
GenerateChunkId ==
    \E id \in ChunkIds :
        /\ Len(hist) < MaxChunks
        /\ encoded' = generate_chunk_id(encoded, id)
        /\ hist' = Append(hist, [id |-> ENCODING_DTYPE(id), n |-> 0, reg |-> FALSE])
        /\ res' = Result("generate_chunk_id", 0, "ok", ENCODING_DTYPE(id), <<>>, <<>>)

\* enc.register_samples(n)
RegisterSamples ==
    \E n \in Counts :
        LET r == register_samples(encoded, n) IN
        /\ SumCounts(hist) + n <= MaxRegistered
        /\ encoded' = r.enc
        /\ hist' = IF r.status = "ok"
                   THEN [hist EXCEPT ![Len(hist)] =
                             [id |-> @.id, n |-> @.n + n, reg |-> TRUE]]
                   ELSE hist
        /\ res' = Result("register_samples", n, r.status, 0, <<>>, <<>>)

\* enc.num_samples
NumSamples ==
    /\ res' = Result("num_samples", 0, "ok", num_samples(encoded), <<>>, <<>>)
    /\ UNCHANGED <<encoded, hist>>

\* enc.num_chunks
NumChunks ==
    /\ res' = Result("num_chunks", 0, "ok", num_chunks(encoded), <<>>, <<>>)
    /\ UNCHANGED <<encoded, hist>>

\* enc.get_chunk_id(i)
GetChunkId ==
    \E i \in Indices :
        LET g == get_chunk_id(encoded, i) IN
        /\ res' = Result("get_chunk_id", i, g.status, g.value, <<>>, <<>>)
        /\ UNCHANGED <<encoded, hist>>

\* enc.get_local_sample_index(i)
GetLocalSampleIndex ==
    \E i \in Indices :
        LET g == get_local_sample_index(encoded, i) IN
        /\ res' = Result("get_local_sample_index", i, g.status, g.value, <<>>, <<>>)
        /\ UNCHANGED <<encoded, hist>>

\* enc.tobytes()
ToBytes ==
    /\ res' = Result("tobytes", 0, "ok", 0, <<>>, tobytes(encoded))
    /\ UNCHANGED <<encoded, hist>>

\* ChunkIdEncoder.frombuffer(buffer), on the buffer tobytes just returned
FromBuffer ==
    /\ res.op = "tobytes"
    /\ res' = Result("frombuffer", 0, "ok", 0, frombuffer(res.buf), res.buf)
    /\ UNCHANGED <<encoded, hist>>

\* ChunkIdEncoder.frombuffer(b"")
FromEmptyBuffer ==
    /\ res' = Result("frombuffer", 0, "ok", 0, frombuffer(<<>>), <<>>)
    /\ UNCHANGED <<encoded, hist>>

Next ==
    \/ GenerateChunkId
    \/ RegisterSamples
    \/ NumSamples
    \/ NumChunks
    \/ GetChunkId
    \/ GetLocalSampleIndex
    \/ ToBytes
    \/ FromBuffer
    \/ FromEmptyBuffer

Spec == Init /\ [][Next]_vars

\* ------------------------------------------ the name conversions alone
\* ChunkIdEncoder.name_from_id(id)
NameFromId ==
    \E id \in NameIds :
        /\ res' = Result("name_from_id", 0, "ok", id, <<>>, name_from_id(id))
        /\ UNCHANGED <<encoded, hist>>

\* ChunkIdEncoder.id_from_name(name)
IdFromName ==
    \E name \in Names :
        LET r == id_from_name(name) IN
        /\ res' = Result("id_from_name", 0, r.status, r.value, <<>>, name)
        /\ UNCHANGED <<encoded, hist>>

\* ChunkIdEncoder.id_from_name(name_from_id(id)), on the name just returned
IdFromReturnedName ==
    /\ res.op = "name_from_id"
    /\ LET r == id_from_name(res.buf) IN
       res' = Result("id_from_name", res.val, r.status, r.value, <<>>, res.buf)
    /\ UNCHANGED <<encoded, hist>>

NextNames ==
    \/ NameFromId
    \/ IdFromName
    \/ IdFromReturnedName

SpecNames == Init /\ [][NextNames]_vars

\* ------------------------------------------------- history (reference)
\* every chunk but the newest had a registration before the next was generated
Obeys(h) == \A k \in 1 .. Len(h) - 1 : h[k].reg

RECURSIVE Cum(_, _)
\* the samples registered to the first k chunks
Cum(h, k) == IF k = 0 THEN 0 ELSE Cum(h, k - 1) + h[k].n

\* the generate_chunk_id calls whose registrations cover index i
Owners(h, i) == {k \in 1 .. Len(h) : Cum(h, k - 1) <= i /\ i < Cum(h, k)}
Owner(h, i) == CHOOSE k \in Owners(h, i) : TRUE

IsRegisterStep == res'.op = "register_samples"
IsGenerateStep == res'.op = "generate_chunk_id"
Bound(row) == Col(row, last_index_index)
Sentinel == ENCODING_DTYPE(-1)
InvalidRegistration == {"ChunkIdEncoderError_no_chunk_ids", "ChunkIdEncoderError_zero_count"}

\* -------------------------------------------------------------- claims

\* C1: after calls that obey the preconditions, num_samples equals the sum
\* of the counts of the successful register_samples calls.
C1_num_samples_is_sum_of_counts ==
    Obeys(hist) => num_samples(encoded) = SumCounts(hist)

\* C2: num_chunks equals the number of generate_chunk_id calls made so far,
\* also right after a generate_chunk_id not yet followed by a registration.
C2_num_chunks_is_number_of_generate_calls ==
    /\ num_chunks(encoded) = Len(hist)
    /\ res.op = "num_chunks" => res.val = Len(hist)

C2_witness ==
    /\ Len(hist) = 1
    /\ ~hist[1].reg
    /\ res.op = "num_chunks"
    /\ res.val = 1

\* C3: for every i in [0, num_samples), get_chunk_id(i) returns the id of the
\* generate_chunk_id call whose registrations cover i (never a chunk with no
\* registered samples), and the row found does not decrease as i increases.
C3_get_chunk_id_returns_covering_chunk ==
    Obeys(hist) =>
        \A i \in 0 .. num_samples(encoded) - 1 :
            /\ Owners(hist, i) # {}
            /\ get_chunk_id(encoded, i).status = "ok"
            /\ get_chunk_id(encoded, i).value = hist[Owner(hist, i)].id
            /\ hist[getitem(encoded, i).row + 1].n > 0
            /\ \A j \in 0 .. i : getitem(encoded, j).row <= getitem(encoded, i).row

\* C4: the first register_samples(count), count >= 1, after the first
\* generate_chunk_id on an empty encoder succeeds with num_samples = count and
\* num_chunks = 1; the "no chunk IDs exist" error is raised only while
\* generate_chunk_id has never been called.
C4_first_registration_succeeds ==
    [][IsRegisterStep =>
          /\ (Len(hist) = 1 /\ ~hist[1].reg /\ res'.arg >= 1) =>
                 /\ res'.status = "ok"
                 /\ num_samples(encoded') = res'.arg
                 /\ num_chunks(encoded') = 1
          /\ res'.status = "ChunkIdEncoderError_no_chunk_ids" => Len(hist) = 0
      ]_vars

C4_witness ==
    /\ Len(hist) = 1
    /\ res.op = "register_samples"
    /\ res.status = "ok"
    /\ res.arg = 2
    /\ hist[1].n = 2
    /\ num_samples(encoded) = 2
    /\ num_chunks(encoded) = 1

\* C5: for every i in [0, num_samples), get_local_sample_index(i) is i minus the
\* first index of the chunk containing i, and lies between 0 and the number of
\* samples of that chunk minus one.
C5_local_index_is_offset_in_chunk ==
    Obeys(hist) =>
        \A i \in 0 .. num_samples(encoded) - 1 :
            LET l == get_local_sample_index(encoded, i) IN
            /\ Owners(hist, i) # {}
            /\ l.status = "ok"
            /\ l.value = i - Cum(hist, Owner(hist, i) - 1)
            /\ 0 <= l.value
            /\ l.value <= hist[Owner(hist, i)].n - 1

\* C6: get_chunk_id(i) fails with the out-of-range error for every i < 0 and
\* every i >= num_samples, and for every i while no samples are registered.
C6_get_chunk_id_out_of_range ==
    \A i \in Indices :
        /\ (i < 0 \/ i >= num_samples(encoded)) =>
               get_chunk_id(encoded, i).status = "IndexError"
        /\ SumCounts(hist) = 0 => get_chunk_id(encoded, i).status = "IndexError"

\* C7: register_samples(0) fails with the invalid-registration error while
\* fewer than two chunks exist, and succeeds with num_samples unchanged
\* when at least two exist.
C7_zero_count_needs_two_chunks ==
    [][(IsRegisterStep /\ res'.arg = 0) =>
          IF Len(hist) < 2
          THEN res'.status \in InvalidRegistration
          ELSE /\ res'.status = "ok"
               /\ num_samples(encoded') = num_samples(encoded)
      ]_vars

C7_witness ==
    /\ Len(hist) >= 2
    /\ res.op = "register_samples"
    /\ res.arg = 0
    /\ res.status = "ok"
    /\ hist[Len(hist)].reg
    /\ hist[Len(hist)].n = 0

\* C8: a register_samples call that fails (negative count, no chunk id
\* generated, zero count with fewer than two chunks) leaves the table as it was.
C8_failed_registration_leaves_table ==
    [][IsRegisterStep =>
          /\ (res'.arg < 0 \/ Len(hist) = 0 \/ (res'.arg = 0 /\ Len(hist) < 2)) =>
                 res'.status # "ok"
          /\ res'.status # "ok" =>
                 /\ encoded' = encoded
                 /\ num_samples(encoded') = num_samples(encoded)
                 /\ num_chunks(encoded') = num_chunks(encoded)
      ]_vars

C8_witness ==
    /\ Len(encoded) = 2
    /\ res.op = "register_samples"
    /\ res.arg < 0
    /\ res.status = "ValueError"

\* C9: frombuffer(tobytes(enc)) has the rows of enc, same ids and bounds in
\* the same order; the round trip of the empty encoder is empty.
C9_serialization_round_trip ==
    /\ frombuffer(tobytes(encoded)) = encoded
    /\ (res.op = "frombuffer" /\ res.buf = tobytes(encoded)) => res.rows = encoded

C9_witness ==
    /\ res.op = "frombuffer"
    /\ res.buf = tobytes(encoded)
    /\ Len(encoded) = 3
    /\ res.rows = encoded
    /\ encoded[1] # encoded[2]

\* C10: a register_samples call whose addition would push the bound of the last
\* row past the largest representable value, other than the transition from
\* the unregistered sentinel, is surfaced as an error instead of wrapping the
\* bound around.  (The calls obey the preconditions and samples are registered
\* already, so the bound of the last row is a real last index.)
C10_overflow_is_surfaced ==
    [][(/\ IsRegisterStep
        /\ res'.arg >= 0
        /\ Obeys(hist)
        /\ SumCounts(hist) > 0
        /\ Col(LastRow(encoded), last_index_index) = SumCounts(hist) - 1
        /\ Col(LastRow(encoded), last_index_index) + res'.arg > MaxValue)
       => res'.status # "ok"
      ]_vars

\* C11: name_from_id and id_from_name are inverse: id_from_name(name_from_id(id))
\* is id for every id, and name_from_id(id_from_name(name)) is name for every
\* name that name_from_id produces (lowercase hexadecimal, no prefix).
C11_names_and_ids_are_inverse ==
    /\ res.op = "name_from_id" =>
           /\ id_from_name(res.buf) = [status |-> "ok", value |-> res.val]
           /\ \A k \in 1 .. Len(res.buf) : IsHexDigit(res.buf[k])
    /\ (res.op = "id_from_name" /\ \E id \in NameIds : name_from_id(id) = res.buf) =>
           /\ res.status = "ok"
           /\ name_from_id(res.val) = res.buf

C11_witness ==
    /\ res.op = "id_from_name"
    /\ res.buf = <<"a", "f">>
    /\ res.status = "ok"
    /\ res.val = 175
    /\ name_from_id(res.val) = <<"a", "f">>

C13_last_index_strictly_increasing ==
    Obeys(hist) =>
        \A k \in 1 .. Len(encoded) - 1 : Bound(encoded[k]) < Bound(encoded[k + 1])

\* C13, amended: the last_index of a row is the last_index of the row before
\* it (the sentinel for the first row) plus the number of samples registered to
\* its chunk, in the unsigned fixed-width type; it equals the last_index of
\* the row before right after generate_chunk_id and after zero-count
\* registrations, so the values are not strictly increasing.
C13_last_index_is_previous_plus_registered ==
    /\ Len(encoded) = Len(hist)
    /\ \A k \in 1 .. Len(encoded) :
           Bound(encoded[k]) =
               ((IF k = 1 THEN Sentinel ELSE Bound(encoded[k - 1])) + hist[k].n) % Modulus

C13_witness ==
    /\ Len(encoded) = 2
    /\ res.op = "register_samples"
    /\ res.arg = 0
    /\ res.status = "ok"
    /\ hist[1].n = 2
    /\ hist[2].n = 0
    /\ Bound(encoded[1]) = 1
    /\ Bound(encoded[2]) = 1

\* C14: every row generate_chunk_id appends, the first of the table or a later
\* one, is created with last_index equal to the unregistered sentinel.
C14_new_row_has_sentinel ==
    [][IsGenerateStep => Bound(LastRow(encoded')) = Sentinel]_vars

\* C14, amended: the first row of the table is created with the sentinel; a
\* later row is created with last_index num_samples - 1, the last_index of the
\* row before it.
C14_new_row_has_sentinel_or_previous_bound ==
    [][IsGenerateStep =>
          IF encoded = <<>>
          THEN encoded' = << <<res'.val, Sentinel>> >>
          ELSE /\ encoded' = Append(encoded, <<res'.val, Bound(LastRow(encoded))>>)
               /\ Bound(LastRow(encoded')) = ENCODING_DTYPE(num_samples(encoded) - 1)
      ]_vars

C14_witness ==
    /\ res.op = "generate_chunk_id"
    /\ Len(encoded) = 2
    /\ hist[1].n = 2
    /\ Bound(encoded[2]) = 1
    /\ Bound(encoded[2]) # Sentinel

\* C15: the table only grows: the number of rows never decreases and a row
\* once appended keeps its chunk id and its position, also when
\* generate_chunk_id is called while no samples are registered yet.
C15_table_only_grows ==
    [][/\ Len(encoded') >= Len(encoded)
       /\ \A k \in 1 .. Len(encoded) :
              Col(encoded'[k], CHUNK_ID_INDEX) = Col(encoded[k], CHUNK_ID_INDEX)
       /\ IsGenerateStep => Len(encoded') = Len(encoded) + 1
      ]_vars

C15_witness ==
    /\ res.op = "generate_chunk_id"
    /\ Len(encoded) = 2
    /\ SumCounts(hist) = 0
    /\ ~hist[1].reg
    /\ Col(encoded[1], CHUNK_ID_INDEX) = hist[1].id
    /\ Col(encoded[1], CHUNK_ID_INDEX) # Col(encoded[2], CHUNK_ID_INDEX)

\* C16: a successful register_samples call does not change the number of rows
\* and changes nothing but the last_index of the last row.
C16_registration_extends_last_row_only ==
    [][(IsRegisterStep /\ res'.status = "ok") =>
          /\ Len(encoded') = Len(encoded)
          /\ \A k \in 1 .. Len(encoded) :
                 /\ Col(encoded'[k], CHUNK_ID_INDEX) = Col(encoded[k], CHUNK_ID_INDEX)
                 /\ k < Len(encoded) => encoded'[k] = encoded[k]
          /\ Bound(LastRow(encoded')) =
                 ENCODING_DTYPE(Bound(LastRow(encoded)) + res'.arg)
      ]_vars

C16_witness ==
    /\ res.op = "register_samples"
    /\ res.status = "ok"
    /\ res.arg = 2
    /\ Len(encoded) = 2
    /\ hist[1].n = 1
    /\ encoded[1] = <<hist[1].id, 0>>
    /\ encoded[2] = <<hist[2].id, 2>>

\* C17: num_chunks returns 0 whenever num_samples is 0 and the number of rows
\* of the table otherwise.
C17_num_chunks_is_zero_or_rows ==
    res.op = "num_chunks" =>
        LET samples == IF encoded = <<>> THEN 0 ELSE Bound(LastRow(encoded)) + 1 IN
        /\ samples = num_samples(encoded)
        /\ samples = 0 => res.val = 0
        /\ samples # 0 => res.val = Len(encoded)

C17_witness ==
    /\ res.op = "num_chunks"
    /\ Len(encoded) = 2
    /\ num_samples(encoded) = 2
    /\ res.val = 2

\* C18: once get_chunk_id(i) has returned an id and get_local_sample_index(i)
\* a local index, both return the same after any further successful
\* generate_chunk_id or register_samples call.
C18_lookups_are_stable ==
    [][Obeys(hist) =>
          \A i \in Indices :
              get_chunk_id(encoded, i).status = "ok" =>
                  /\ get_chunk_id(encoded', i) = get_chunk_id(encoded, i)
                  /\ get_local_sample_index(encoded', i) = get_local_sample_index(encoded, i)
      ]_vars

\* C19: generate_chunk_id leaves num_samples unchanged, for the first chunk
\* as well as for later chunks.
C19_generate_keeps_num_samples ==
    [][IsGenerateStep => num_samples(encoded') = num_samples(encoded)]_vars

====
